---------------------------- MODULE Spec2Model ----------------------------
(***************************************************************************)
(* Model of coa202ser.py: the host side of a serial test harness.  The     *)
(* program synchronises with the device (scan for 'Q', answer 'X', read    *)
(* one identity line), then writes the messages of msgs one by one and,    *)
(* after each, reads lines until one carries the ERROR: or DONE! tag.      *)
(*                                                                         *)
(* Bytes objects read from the port are sequences of one-character         *)
(* strings; messages are strings (the program only concatenates them).     *)
(* The device is the environment: every read draws its result from a       *)
(* small set, the empty result standing for a read that timed out.         *)
(***************************************************************************)
EXTENDS Integers, Sequences, FiniteSets, TLC

VARIABLES
    pc,             \* position of the program
    going,          \* flag of the sync loop
    s,              \* last result of ser.read(1)
    line,           \* last line read (bytes in the handshake, str in the loop)
    idx,            \* position of the for loop in msgs (msg = msgs[idx])
    still_reading,  \* flag of the response loop
    tx,             \* everything written to the port, in order
    rx,             \* results of the reads made since the last write
    out,            \* standard output: one entry per print call
    terminals,      \* number of ERROR: and DONE! lines the device has sent
    cpc,            \* classifier study: position
    cin,            \* classifier study: raw line given to the classifier
    cout,           \* classifier study: class of cin
    cvar,           \* classifier study: cin with some letters' case changed
    cvout           \* classifier study: class of cvar

vars == <<pc, going, s, line, idx, still_reading, tx, rx, out, terminals,
          cpc, cin, cout, cvar, cvout>>

progVars == <<pc, going, s, line, idx, still_reading, tx, rx, out, terminals>>
clsVars == <<cpc, cin, cout, cvar, cvout>>

-----------------------------------------------------------------------------
(* Bounds *)

NumMsgs == 2        \* the session sends the first NumMsgs messages of the list
MaxReads == 2       \* non-terminal lines the device sends per message
MaxSync == 2        \* non-'Q' results the device gives to the sync loop
MaxPad == 1         \* classifier study: bytes in front of the tag

-----------------------------------------------------------------------------
(* Values *)

\* the value of s and of line before their first assignment: no bytes object
\* and no str is equal to it
Unbound == <<"<unbound>">>

Min(a, b) == IF a < b THEN a ELSE b

Range(f) == {f[i] : i \in DOMAIN f}

Last(q) == q[Len(q)]

LowerLetters == <<"a","b","c","d","e","f","g","h","i","j","k","l","m",
                  "n","o","p","q","r","s","t","u","v","w","x","y","z">>
UpperLetters == <<"A","B","C","D","E","F","G","H","I","J","K","L","M",
                  "N","O","P","Q","R","S","T","U","V","W","X","Y","Z">>

\* str.upper() on one ASCII character
UpperChar(c) ==
    IF \E i \in 1..26 : LowerLetters[i] = c
    THEN UpperLetters[CHOOSE i \in 1..26 : LowerLetters[i] = c]
    ELSE c

\* str.upper()
Upper(str) == [i \in 1..Len(str) |-> UpperChar(str[i])]

\* the other case of one ASCII character
SwapChar(c) ==
    IF \E i \in 1..26 : LowerLetters[i] = c
    THEN UpperLetters[CHOOSE i \in 1..26 : LowerLetters[i] = c]
    ELSE IF \E i \in 1..26 : UpperLetters[i] = c
         THEN LowerLetters[CHOOSE i \in 1..26 : UpperLetters[i] = c]
         ELSE c

\* Python's str[a:b] for 0 <= a <= b (positions a .. b-1, clipped to the string)
Slice(str, a, b) == SubSeq(str, a + 1, Min(b, Len(str)))

\* repr of one byte inside a bytes literal delimited by quote
EscapeByte(c, quote) ==
    CASE c = "\n" -> <<"\\", "n">>
      [] c = "\r" -> <<"\\", "r">>
      [] c = "\t" -> <<"\\", "t">>
      [] c = "\\" -> <<"\\", "\\">>
      [] c = quote -> <<"\\", c>>
      [] OTHER -> <<c>>

RECURSIVE EscapeBytes(_, _)
EscapeBytes(b, quote) ==
    IF b = <<>> THEN <<>>
    ELSE EscapeByte(Head(b), quote) \o EscapeBytes(Tail(b), quote)

\* str(b) for a bytes object b of printable ASCII, CR, LF and TAB: the
\* literal b'...' (b"..." when b holds a single quote and no double quote)
Str(b) ==
    LET quote == IF "'" \in Range(b) /\ "\"" \notin Range(b) THEN "\"" ELSE "'"
    IN  <<"b", quote>> \o EscapeBytes(b, quote) \o <<quote>>

\* str(msg) for a message: none of the messages holds a quote, a backslash
\* or a control character
StrMsg(m) == "b'" \o m \o "'"

TagDebug == <<"D","E","B","U","G",":">>
TagError == <<"E","R","R","O","R",":">>
TagDone  == <<"D","O","N","E","!">>

\* variant: the DONE! test takes the six-character slice of the other tests
ClassifyDoneWide(l) ==
    IF Upper(Slice(l, 2, 8)) = TagDebug THEN "Debug"
    ELSE IF Upper(Slice(l, 2, 8)) = TagError THEN "Error"
    ELSE IF Upper(Slice(l, 2, 8)) = TagDone THEN "Done"
    ELSE "Unrecognized"

\* variant: the tests compare the slices without upper()
ClassifyNoUpper(l) ==
    IF Slice(l, 2, 8) = TagDebug THEN "Debug"
    ELSE IF Slice(l, 2, 8) = TagError THEN "Error"
    ELSE IF Slice(l, 2, 7) = TagDone THEN "Done"
    ELSE "Unrecognized"

\* variant: the DONE! test leaves the '!' out and takes four characters
ClassifyShortDone(l) ==
    IF Upper(Slice(l, 2, 8)) = TagDebug THEN "Debug"
    ELSE IF Upper(Slice(l, 2, 8)) = TagError THEN "Error"
    ELSE IF Upper(Slice(l, 2, 6)) = SubSeq(TagDone, 1, 4) THEN "Done"
    ELSE "Unrecognized"

\* the if/elif chain of the response loop, on the str of the line read
Classify(l) ==
    IF Upper(Slice(l, 2, 8)) = TagDebug THEN "Debug"
    ELSE IF Upper(Slice(l, 2, 8)) = TagError THEN "Error"
    ELSE IF Upper(Slice(l, 2, 7)) = TagDone THEN "Done"
    ELSE "Unrecognized"

\* bytes of the line that the slices [2:8] and [2:7] see
TagWindow == 6

AllMsgs == <<"A-GR04XFB-C-GranbySt.", "A-GF57XWD-B-BeehiveLane",
             "A-BD51SMR-V-BrownsLane", "S-GR04XFB-PD", "T-GR04XFB-B",
             "L-GF57XWD-Southfield", "S-GF57XWD-1", "L-CU57ABC-BeehiveLane",
             "L-GR04XFB-BrownsLane", "S-BD51SMR-PD", "L-BD51SMR-BrownsLane",
             "A-CU57ABC-C-BedfordSquare", "A-CU57ABC-BedfordSq.",
             "A-CU57ABC-C-BedfordSquare", "A-CU57ABC-C-",
             "A-CU57ABC-M-BedfordSq.", "A-GR04XFB-B-BrownsLane",
             "Z-GR04XFB-BrownsLane", "ACU57ABC-V-BrownsLane",
             "A-GF23WSN- L- BrownsLane">>

msgs == SubSeq(AllMsgs, 1, NumMsgs)

-----------------------------------------------------------------------------
(* The device *)

CRLF == <<"\r", "\n">>

\* results of ser.read(1): one byte, or nothing on a timeout
DeviceBytes == {<<"Q">>, <<"q">>, <<"X">>, <<>>}

\* results of ser.readline() during the handshake
IdentityLines == {<<"B","A","S","I","C">> \o CRLF, <<>>}

\* results of ser.readline() after a message
DeviceLines ==
    { TagDone \o CRLF,
      TagError \o <<" ","x">> \o CRLF,
      TagDebug \o <<" ","f">> \o CRLF,
      <<"J","U","N","K">> \o CRLF,
      <<>> }

\* what the device put at the start of a line: one of the three tags, in any
\* case, or nothing the protocol knows
Sent(l) ==
    IF Upper(Slice(l, 0, 6)) = TagDebug THEN "Debug"
    ELSE IF Upper(Slice(l, 0, 6)) = TagError THEN "Error"
    ELSE IF Upper(Slice(l, 0, 5)) = TagDone THEN "Done"
    ELSE "Unrecognized"

\* the device answers a message with at most MaxReads lines that carry
\* neither ERROR: nor DONE!, and then with at most one line more
MaySend(l, sofar) ==
    /\ Len(sofar) <= MaxReads
    /\ Sent(l) \in {"Error", "Done"} \/ Len(sofar) < MaxReads

\* the device gives the sync loop at most MaxSync results other than 'Q',
\* and then at most one result more
MayGive(b, sofar) ==
    /\ Len(sofar) <= MaxSync
    /\ b = <<"Q">> \/ Len(sofar) < MaxSync

-----------------------------------------------------------------------------
(* The program *)

ProgInit ==
    /\ pc = "sync"
    /\ going = TRUE
    /\ s = Unbound
    /\ line = Unbound
    /\ idx = 0
    /\ still_reading = FALSE     \* assigned before the response loop reads it
    /\ tx = <<>>
    /\ rx = <<>>
    /\ out = << <<"waiting for sync">> >>
    /\ terminals = 0

Init ==
    /\ ProgInit
    /\ cpc = "off"
    /\ cin = <<>>
    /\ cout = "none"
    /\ cvar = <<>>
    /\ cvout = "none"

\* variant: the sentinel is accepted in either case
GoingAfterAnyCase(b, g) == IF Upper(b) = <<"Q">> THEN FALSE ELSE g

\* variant: a read that timed out ends the scan as well
GoingAfterTimeoutEnds(b, g) == IF b = <<"Q">> \/ b = <<>> THEN FALSE ELSE g

\* if s == b'Q': going = False
GoingAfter(b, g) == IF b = <<"Q">> THEN FALSE ELSE g

\* variant: the newline is left out
PayloadBare(m) == m

\* msg + b'\n'
Payload(m) == m \o "\n"

\* variant: every line read is printed
LoggedEveryLine(l, o) == Append(o, <<"Read: ", l>>)

\* variant: the DEBUG: branch does not print
LoggedOnlyError(l, o) ==
    IF Classify(l) = "Error"
    THEN Append(o, <<"Read: ", l>>)
    ELSE o

\* the print calls of the if/elif chain: DEBUG: and ERROR: lines are printed
LoggedAfter(l, o) ==
    IF Classify(l) \in {"Debug", "Error"}
    THEN Append(o, <<"Read: ", l>>)
    ELSE o

\* variant: an ERROR: line has to be followed by a DONE! line
StillReadingErrorIgnored(l, sr) ==
    IF Classify(l) = "Done" THEN FALSE ELSE sr

\* variant: a DEBUG: line ends the loop as well
StillReadingDebugEnds(l, sr) ==
    IF Classify(l) \in {"Debug", "Error", "Done"} THEN FALSE ELSE sr

\* variant: the empty line of a timed-out read ends the loop as well
StillReadingTimeoutEnds(l, sr) ==
    IF Classify(l) \in {"Error", "Done"} \/ l = Str(<<>>) THEN FALSE ELSE sr

\* variant: only an ERROR: line ends the loop
StillReadingDoneIgnored(l, sr) ==
    IF Classify(l) = "Error" THEN FALSE ELSE sr

\* variant: any line that is not empty ends the loop
StillReadingJunkEnds(l, sr) ==
    IF l # Str(<<>>) /\ Classify(l) # "Debug" THEN FALSE ELSE sr

\* the assignments of the if/elif chain: ERROR: and DONE! lines end the loop
StillReadingAfter(l, sr) ==
    IF Classify(l) \in {"Error", "Done"} THEN FALSE ELSE sr

\* variant: the loop stops one message early
NextMsgPcSkipLast(i) == IF i < Len(msgs) - 1 THEN "send" ELSE "done"

\* for msg in msgs: the position after the handshake or after an exchange
NextMsgPc(i) == IF i < Len(msgs) THEN "send" ELSE "done"

\* one pass of the sync loop: read a byte, leave the loop on 'Q'
SyncRead ==
    /\ pc = "sync"
    /\ \E b \in DeviceBytes :
        /\ MayGive(b, rx)
        /\ s' = b
        /\ going' = GoingAfter(b, going)
        /\ rx' = Append(rx, <<"read", b>>)
    /\ pc' = IF going' THEN "sync" ELSE "ack"
    /\ UNCHANGED <<line, idx, still_reading, tx, out, terminals, clsVars>>

\* ser.write(b'X'); print("Sync")
WriteX ==
    /\ pc = "ack"
    /\ tx' = Append(tx, "X")
    /\ rx' = <<>>
    /\ out' = Append(out, <<"Sync">>)
    /\ pc' = "ident"
    /\ UNCHANGED <<going, s, line, idx, still_reading, terminals, clsVars>>

\* variant: an empty identity line is read again
ReadIdentityRetry ==
    /\ pc = "ident"
    /\ Len(rx) <= MaxSync
    /\ \E l \in IdentityLines :
        /\ line' = l
        /\ rx' = Append(rx, <<"readline", l>>)
        /\ out' = Append(out, <<Str(l)>>)
        /\ idx' = IF l # <<>> /\ 0 < Len(msgs) THEN 1 ELSE idx
        /\ pc' = IF l = <<>> THEN "ident" ELSE NextMsgPc(0)
    /\ UNCHANGED <<going, s, still_reading, tx, terminals, clsVars>>

\* line = ser.readline(); print(line); then the for loop takes its first message
ReadIdentity ==
    /\ pc = "ident"
    /\ \E l \in IdentityLines :
        /\ line' = l
        /\ rx' = Append(rx, <<"readline", l>>)
        /\ out' = Append(out, <<Str(l)>>)
    /\ idx' = IF 0 < Len(msgs) THEN 1 ELSE idx
    /\ pc' = NextMsgPc(0)
    /\ UNCHANGED <<going, s, still_reading, tx, terminals, clsVars>>

\* variant: still_reading is set once, ahead of the for loop, so that the
\* response loop of a later message finds it cleared and is skipped
SendMsgNoReset ==
    /\ pc = "send"
    /\ out' = Append(out, <<"Write:", StrMsg(msgs[idx])>>)
    /\ tx' = Append(tx, Payload(msgs[idx]))
    /\ rx' = <<>>
    /\ still_reading' = (idx = 1 \/ still_reading)
    /\ IF still_reading'
       THEN /\ pc' = "read"
            /\ idx' = idx
       ELSE /\ pc' = NextMsgPc(idx)
            /\ idx' = IF idx < Len(msgs) THEN idx + 1 ELSE idx
    /\ UNCHANGED <<going, s, line, terminals, clsVars>>

\* print("Write:", str(msg)); ser.write(msg + b'\n'); still_reading = True
SendMsg ==
    /\ pc = "send"
    /\ out' = Append(out, <<"Write:", StrMsg(msgs[idx])>>)
    /\ tx' = Append(tx, Payload(msgs[idx]))
    /\ rx' = <<>>
    /\ still_reading' = TRUE
    /\ pc' = "read"
    /\ UNCHANGED <<going, s, line, idx, terminals, clsVars>>

\* one pass of the response loop: read a line, classify it, print it and
\* clear still_reading as its class says; when the loop ends the for loop
\* takes the next message or the program ends
ReadResponse ==
    /\ pc = "read"
    /\ \E l \in DeviceLines :
        /\ MaySend(l, rx)
        /\ line' = Str(l)
        /\ rx' = Append(rx, <<"readline", l>>)
        /\ terminals' = IF Sent(l) \in {"Error", "Done"}
                        THEN terminals + 1
                        ELSE terminals
    /\ out' = LoggedAfter(line', out)
    /\ still_reading' = StillReadingAfter(line', still_reading)
    /\ IF still_reading'
       THEN /\ pc' = "read"
            /\ idx' = idx
       ELSE /\ pc' = NextMsgPc(idx)
            /\ idx' = IF idx < Len(msgs) THEN idx + 1 ELSE idx
    /\ UNCHANGED <<going, s, tx, clsVars>>

\* a read or a write of the port raises (device unplugged): nothing catches
\* the exception and the program stops
TransportError ==
    /\ pc \in {"sync", "ack", "ident", "send", "read"}
    /\ out' = IF pc = "send"
              THEN Append(out, <<"Write:", StrMsg(msgs[idx])>>)
              ELSE out
    /\ pc' = "crashed"
    /\ UNCHANGED <<going, s, line, idx, still_reading, tx, rx, terminals, clsVars>>

Next ==
    \/ SyncRead
    \/ WriteX
    \/ ReadIdentity
    \/ SendMsg
    \/ ReadResponse
    \/ TransportError

Spec == Init /\ [][Next]_vars

-----------------------------------------------------------------------------
(* A session without transport errors, against a device that eventually   *)
(* sends 'Q' and eventually answers every message with an ERROR: or DONE! *)
(* line.  Writes and prints return; a blocking read returns after at most *)
(* the timeout.                                                           *)

NextNoFault ==
    \/ SyncRead
    \/ WriteX
    \/ ReadIdentity
    \/ SendMsg
    \/ ReadResponse

\* the device sends the sentinel
DeviceSendsQ == SyncRead /\ s' = <<"Q">>

\* the device sends a line that carries the ERROR: or the DONE! tag
DeviceSendsTerminal ==
    /\ ReadResponse
    /\ Sent(Last(rx')[2]) \in {"Error", "Done"}

\* the steps that are bound to happen: at each position of the program at
\* most one of them is possible
Progress ==
    \/ DeviceSendsQ
    \/ WriteX
    \/ ReadIdentity
    \/ SendMsg
    \/ DeviceSendsTerminal

LiveSpec ==
    /\ Init
    /\ [][NextNoFault]_vars
    /\ WF_vars(Progress)

-----------------------------------------------------------------------------
(* The classifier on its own: a line is drawn from ClsInputs, classified,  *)
(* and classified again after the case of some letters of its first       *)
(* TagWindow bytes has been changed.                                       *)

Pad(n) == [i \in 1..n |-> "x"]

ToggleCase(b, S) == [i \in 1..Len(b) |-> IF i \in S THEN SwapChar(b[i]) ELSE b[i]]

Tails == {<<>>, CRLF, <<" ","i","t","'","s">> \o CRLF}

\* every prefix of every tag, in every mix of cases, behind 0..MaxPad bytes
\* and in front of each tail
ClsInputs ==
    { Pad(p) \o ToggleCase(Slice(tag, 0, k), m) \o t :
        p \in 0..MaxPad, tag \in {TagDebug, TagError, TagDone},
        k \in 0..TagWindow, m \in SUBSET (1..TagWindow), t \in Tails }

ClsInit ==
    /\ ProgInit
    /\ cpc = "in"
    /\ cin \in ClsInputs
    /\ cout = "none"
    /\ cvar = <<>>
    /\ cvout = "none"

ClassifyLine ==
    /\ cpc = "in"
    /\ cout' = Classify(Str(cin))
    /\ cpc' = "classified"
    /\ UNCHANGED <<cin, cvar, cvout, progVars>>

ClassifyVariant ==
    /\ cpc = "classified"
    /\ \E S \in SUBSET (1..TagWindow) :
        /\ cvar' = ToggleCase(cin, S)
        /\ cvout' = Classify(Str(cvar'))
    /\ cpc' = "compared"
    /\ UNCHANGED <<cin, cout, progVars>>

ClsNext ==
    \/ ClassifyLine
    \/ ClassifyVariant

ClsSpec == ClsInit /\ [][ClsNext]_vars

-----------------------------------------------------------------------------
(* Vocabulary of the properties *)

\* the writes that follow the handshake's acknowledgement
MsgWrites == SelectSeq(tx, LAMBDA w : w # "X")

\* this step is a line read of the response loop
ResponseRead == pc = "read" /\ rx' # rx

-----------------------------------------------------------------------------
(* C1: the writes that follow the handshake are msgs[1]+newline,           *)
(* msgs[2]+newline, ... in input order, none twice and none skipped; a     *)
(* message after the first is written only when the last line read since   *)
(* the previous write carried ERROR: or DONE!; a session that has ended    *)
(* has written every message.                                              *)
C1_WritesInOrder ==
    /\ [](/\ Len(MsgWrites) <= Len(msgs)
          /\ \A k \in 1..Len(MsgWrites) : MsgWrites[k] = msgs[k] \o "\n"
          /\ pc = "done" => Len(MsgWrites) = Len(msgs))
    /\ [][(tx' # tx /\ Len(MsgWrites) >= 1) =>
             /\ rx # <<>>
             /\ Sent(Last(rx)[2]) \in {"Error", "Done"}]_vars

C1_Witness ==
    /\ pc = "done"
    /\ Len(MsgWrites) = NumMsgs
    /\ NumMsgs >= 2

(* C2: a line carrying ERROR: ends the exchange of the current message     *)
(* and nothing else: after it the program is about to write the next       *)
(* message, or has ended normally if the message was the last one; and     *)
(* from the point where a message is due the only thing that happens on    *)
(* the port is the write of that message.                                  *)
C2_ErrorMovesOn ==
    /\ [][(ResponseRead /\ Sent(Last(rx')[2]) = "Error") =>
             IF idx < Len(msgs)
             THEN pc' = "send" /\ idx' = idx + 1
             ELSE pc' = "done"]_vars
    /\ [][(pc = "send" /\ (tx' # tx \/ rx' # rx)) =>
             tx' = Append(tx, msgs[idx] \o "\n")]_vars

C2_Witness ==
    /\ pc = "read"
    /\ idx = 2
    /\ rx = <<>>
    /\ Len(MsgWrites) = 2
    /\ Classify(line) = "Error"

(* C3: the lines read for a message are exactly the device's lines up to   *)
(* and including the first one that carries ERROR: or DONE!: while the     *)
(* program waits, no line read since the write carried either tag; once    *)
(* the exchange is over, the last line read carried one and no earlier     *)
(* one did.                                                                *)
C3_ReadsThroughFirstTerminal ==
    /\ pc = "read" =>
          \A k \in 1..Len(rx) :
              rx[k][1] = "readline" /\ Sent(rx[k][2]) \notin {"Error", "Done"}
    /\ ((pc = "send" /\ idx > 1) \/ (pc = "done" /\ Len(msgs) > 0)) =>
          /\ rx # <<>>
          /\ Sent(Last(rx)[2]) \in {"Error", "Done"}
          /\ \A k \in 1..Len(rx) - 1 :
                rx[k][1] = "readline" /\ Sent(rx[k][2]) \notin {"Error", "Done"}

C3_Witness ==
    /\ pc = "send"
    /\ idx = 2
    /\ Len(rx) = 3
    /\ Sent(rx[1][2]) = "Debug"
    /\ Sent(rx[2][2]) = "Debug"
    /\ Sent(rx[3][2]) = "Done"

(* C4: a line that carries no tag, and the empty line of a read that timed *)
(* out, leave the program where it was: still waiting for the same         *)
(* message, nothing written, nothing printed, not stopped; so after any    *)
(* number of such lines the program is still waiting.                      *)
C4_JunkKeepsWaiting ==
    /\ [][(ResponseRead /\ Sent(Last(rx')[2]) = "Unrecognized") =>
             /\ pc' = "read"
             /\ idx' = idx
             /\ tx' = tx
             /\ out' = out
             /\ still_reading' = TRUE]_vars
    /\ []((pc = "read" /\ \A k \in 1..Len(rx) : Sent(rx[k][2]) = "Unrecognized")
             => still_reading = TRUE /\ Len(MsgWrites) = idx)

C4_Witness ==
    /\ pc = "read"
    /\ Len(rx) >= 2
    /\ \A k \in 1..Len(rx) : Sent(rx[k][2]) = "Unrecognized"
    /\ \E k \in 1..Len(rx) : rx[k][2] = <<>>
    /\ \E k \in 1..Len(rx) : rx[k][2] # <<>>

(* C5: the handshake reads single bytes up to and including the first 'Q'  *)
(* and none after it, writes nothing before that 'Q', then writes one 'X', *)
(* then reads one line, which it keeps as it is.                           *)
C5_Handshake ==
    /\ pc = "sync" =>
          /\ tx = <<>>
          /\ \A k \in 1..Len(rx) : rx[k][1] = "read" /\ rx[k][2] # <<"Q">>
    /\ pc = "ack" =>
          /\ tx = <<>>
          /\ rx # <<>>
          /\ Last(rx) = <<"read", <<"Q">>>>
          /\ \A k \in 1..Len(rx) - 1 : rx[k][1] = "read" /\ rx[k][2] # <<"Q">>
    /\ pc = "ident" => tx = <<"X">> /\ rx = <<>>
    /\ pc \in {"ident", "send", "read", "done"} =>
          /\ Len(tx) - Len(MsgWrites) = 1
          /\ \A k \in 1..Len(rx) : rx[k][1] = "readline"
    /\ (pc = "send" /\ idx = 1) =>
          /\ tx = <<"X">>
          /\ rx = << <<"readline", line>> >>
          /\ line \in IdentityLines

C5_Witness ==
    /\ pc = "send"
    /\ idx = 1
    /\ tx = <<"X">>
    /\ line = <<"B","A","S","I","C">> \o CRLF

(* C6: the classifier tests, in this order, DEBUG: on the six characters  *)
(* at positions 2..7 of the line, ERROR: on the same six characters, DONE! *)
(* on the five characters at positions 2..6, each after upper-casing, and  *)
(* answers Unrecognized when none matches.                                 *)

\* the characters of l from position first (counted from 0) on are tag, in
\* any case
TagAt(l, first, tag) ==
    \A j \in 1..Len(tag) :
        first + j <= Len(l) /\ UpperChar(l[first + j]) = tag[j]

RefClass(l) ==
    IF TagAt(l, 2, TagDebug) THEN "Debug"
    ELSE IF TagAt(l, 2, TagError) THEN "Error"
    ELSE IF TagAt(l, 2, TagDone) THEN "Done"
    ELSE "Unrecognized"

C6_Windows ==
    cpc \in {"classified", "compared"} => cout = RefClass(Str(cin))

C6_Witness ==
    /\ cpc = "classified"
    /\ cout = "Done"
    /\ Len(cin) > Len(TagDone)

\* the substring that occupies the positions first..last of l
Occupying(l, first, last) == Slice(l, first, last + 1)

\* C6 as the specification words it: DEBUG: at positions 2-7, ERROR: at
\* positions 2-8, DONE! at positions 2-7
ClaimedClass(l) ==
    IF Upper(Occupying(l, 2, 7)) = TagDebug THEN "Debug"
    ELSE IF Upper(Occupying(l, 2, 8)) = TagError THEN "Error"
    ELSE IF Upper(Occupying(l, 2, 7)) = TagDone THEN "Done"
    ELSE "Unrecognized"

C6_AsClaimed ==
    cpc \in {"classified", "compared"} => cout = ClaimedClass(Str(cin))

(* C7: changing the case of any letters among the bytes of a line that     *)
(* the tag tests look at does not change the class of the line.            *)
C7_CaseInsensitive ==
    cpc = "compared" => cvout = cout

C7_Witness ==
    /\ cpc = "compared"
    /\ cout = "Error"
    /\ cvar # cin
    /\ cvar # Upper(cvar)

(* C8: with no transport error, a device that sends 'Q' and answers every  *)
(* message with an ERROR: or DONE! line, the program ends normally, having *)
(* written every message.                                                  *)
C8_Terminates ==
    <>(/\ pc = "done"
       /\ MsgWrites = [k \in 1..NumMsgs |-> msgs[k] \o "\n"])

C8_Witness ==
    /\ pc = "done"
    /\ Len(MsgWrites) = NumMsgs
    /\ Sent(Last(rx)[2]) = "Done"
    /\ Len(rx) > 1

(* C9: an ERROR: line is printed and a read that timed out in the response *)
(* loop prints nothing; after either the session goes on (next message,    *)
(* or the same one); the program stops early only on a port operation that *)
(* failed, never on one that returned.                                     *)
C9_ErrorKinds ==
    /\ [][(ResponseRead /\ Sent(Last(rx')[2]) = "Error") =>
             /\ out' = Append(out, <<"Read: ", Str(Last(rx')[2])>>)
             /\ pc' \in {"send", "done"}]_vars
    /\ [][(ResponseRead /\ Last(rx')[2] = <<>>) =>
             /\ out' = out
             /\ pc' = "read"
             /\ idx' = idx]_vars
    /\ [][pc' = "crashed" => (tx' = tx /\ rx' = rx)]_vars
    /\ [][pc = "crashed" => pc' = "crashed"]_vars

C9_Witness ==
    /\ pc = "read"
    /\ idx = 2
    /\ rx # <<>>
    /\ Last(rx)[2] = <<>>
    /\ \E k \in 1..Len(out) : out[k][1] = "Read: " /\ Classify(out[k][2]) = "Error"

\* C9 as the specification words it: a timed-out read prints a line too
C9_AsClaimed ==
    /\ [][(ResponseRead /\ Sent(Last(rx')[2]) = "Error") =>
             /\ Len(out') = Len(out) + 1
             /\ pc' \in {"send", "done"}]_vars
    /\ [][(ResponseRead /\ Last(rx')[2] = <<>>) =>
             /\ Len(out') = Len(out) + 1
             /\ pc' = "read"]_vars
    /\ [][pc = "crashed" => pc' = "crashed"]_vars

(* C10: the handshake comes first and once: the first write is the 'X',    *)
(* made after 'Q' was read, and no later write is an 'X'; the first        *)
(* message is written after exactly one line read since the 'X'; whatever  *)
(* that line is, the program goes on to the first message.                 *)
C10_HandshakeFirst ==
    /\ [](Len(tx) >= 1 =>
             /\ tx[1] = "X"
             /\ s = <<"Q">>
             /\ \A k \in 2..Len(tx) : tx[k] # "X")
    /\ [][(Len(tx) = 1 /\ Len(tx') = 2) =>
             /\ Len(rx) = 1
             /\ rx[1][1] = "readline"
             /\ tx'[2] = msgs[1] \o "\n"]_vars
    /\ [][(pc = "ident" /\ rx' # rx) => (pc' = "send" /\ idx' = 1)]_vars

C10_Witness ==
    /\ pc = "read"
    /\ idx = 1
    /\ tx = <<"X", msgs[1] \o "\n">>
    /\ line = <<>>

(* C11: a result of the single-byte read other than 'Q', a byte or the     *)
(* empty result of a timeout, leaves the program scanning: nothing is      *)
(* written, nothing printed, the flag stays set; so as long as no 'Q' has  *)
(* been read the port has seen no write, neither the 'X' nor a message.    *)
C11_NoQNoWrite ==
    /\ [][(pc = "sync" /\ rx' # rx /\ Last(rx')[2] # <<"Q">>) =>
             /\ pc' = "sync"
             /\ going' = TRUE
             /\ tx' = tx
             /\ out' = out]_vars
    /\ [](s # <<"Q">> => (tx = <<>> /\ pc \in {"sync", "crashed"}))

C11_Witness ==
    /\ pc = "sync"
    /\ going = TRUE
    /\ tx = <<>>
    /\ Len(rx) >= 2
    /\ \E k \in 1..Len(rx) : rx[k][2] = <<>>
    /\ \E k \in 1..Len(rx) : rx[k][2] = <<"q">>

(* C12: the classifier gives every line a class, and a line whose str is   *)
(* too short to fill the tag window (positions 2..7), the empty line of a  *)
(* timed-out read included, is Unrecognized and leaves the response loop   *)
(* running.                                                                *)
C12_ShortLines ==
    cpc \in {"classified", "compared"} =>
        /\ cout \in {"Debug", "Error", "Done", "Unrecognized"}
        /\ Len(Str(cin)) < 2 + TagWindow =>
              /\ cout = "Unrecognized"
              /\ StillReadingAfter(Str(cin), TRUE) = TRUE

C12_Witness ==
    /\ cpc = "classified"
    /\ Len(Str(cin)) < 2 + TagWindow
    /\ Upper(cin) = SubSeq(TagDone, 1, 4)
    /\ cout = "Unrecognized"

(* C13: a DEBUG: or ERROR: line adds exactly one entry to the output when  *)
(* it is read, the line itself; a line without a tag adds none and changes *)
(* nothing but the record of the read (line); the write of a message comes *)
(* right after one "Write:" entry for that message, so the "Write:"        *)
(* entries are those of the messages written, in order, with one more      *)
(* only when the write itself failed.                                      *)

\* the "Write:" entries of the output
WriteEntries == SelectSeq(out, LAMBDA e : Len(e) = 2 /\ e[1] = "Write:")

C13_Logging ==
    /\ [][(ResponseRead /\ Sent(Last(rx')[2]) \in {"Debug", "Error"}) =>
             out' = Append(out, <<"Read: ", Str(Last(rx')[2])>>)]_vars
    /\ [][(ResponseRead /\ Sent(Last(rx')[2]) = "Unrecognized") =>
             /\ line' = Str(Last(rx')[2])
             /\ UNCHANGED <<pc, going, s, idx, still_reading, tx, out>>]_vars
    /\ [][(pc = "send" /\ tx' # tx) =>
             out' = Append(out, <<"Write:", "b'" \o msgs[idx] \o "'">>)]_vars
    /\ [](/\ \A k \in 1..Len(WriteEntries) :
                WriteEntries[k] = <<"Write:", "b'" \o msgs[k] \o "'">>
          /\ pc # "crashed" => Len(WriteEntries) = Len(MsgWrites)
          /\ Len(WriteEntries) \in {Len(MsgWrites), Len(MsgWrites) + 1})

C13_Witness ==
    /\ pc = "read"
    /\ idx = 2
    /\ Len(WriteEntries) = 2
    /\ rx # <<>>
    /\ Sent(Last(rx)[2]) = "Debug"
    /\ Last(out) = <<"Read: ", Str(Last(rx)[2])>>

(* C14: every write of a message sets still_reading and enters the        *)
(* response loop, however the exchange before it ended; so at least one    *)
(* line is read between two message writes and after the last one; within  *)
(* an exchange the flag only goes from set to cleared: it is set again     *)
(* only by the write of the next message.                                  *)
C14_WaitReset ==
    /\ [][(pc = "send" /\ tx' # tx) =>
             (still_reading' = TRUE /\ pc' = "read")]_vars
    /\ [][(Len(MsgWrites) >= 1 /\ tx' # tx) =>
             (rx # <<>> /\ \A k \in 1..Len(rx) : rx[k][1] = "readline")]_vars
    /\ [][(still_reading = FALSE /\ still_reading' = TRUE) => tx' # tx]_vars
    /\ [](pc = "read" => still_reading = TRUE)
    /\ [](pc = "done" => (rx # <<>> /\ still_reading = FALSE))

C14_Witness ==
    /\ pc = "read"
    /\ idx = 2
    /\ still_reading = TRUE
    /\ rx = <<>>
    /\ Classify(line) = "Done"

(* C15: the program does not match answers to messages: an ERROR: or       *)
(* DONE! line ends the exchange that is open when it is read, whichever    *)
(* message the device meant it for.  At every moment the messages written  *)
(* are as many as the ERROR: and DONE! lines read, plus one while an       *)
(* exchange is open (still_reading set).                                   *)
C15_OneTerminalPerExchange ==
    /\ [](Len(MsgWrites) = terminals + (IF still_reading THEN 1 ELSE 0))
    /\ [][(ResponseRead /\ Sent(Last(rx')[2]) \in {"Error", "Done"}) =>
             /\ Len(MsgWrites) = idx
             /\ still_reading' = FALSE
             /\ pc' # "read"]_vars

\* the device answers message 1 with ERROR: and then DONE!; the DONE! is read
\* as the whole answer to message 2
C15_Witness ==
    /\ pc = "done"
    /\ idx = 2
    /\ terminals = 2
    /\ Len(rx) = 1
    /\ Sent(rx[1][2]) = "Done"
    /\ \E k \in 1..Len(out) :
          Len(out[k]) = 2 /\ out[k][1] = "Read: " /\ Classify(out[k][2]) = "Error"

=============================================================================
